---- MODULE Spec2Model ----
(***************************************************************************)
(* Model of the web dashboard's report parser                              *)
(* (web-dashboard/src/utils/parser.ts): parsePlaywrightReport turns a      *)
(* nested Playwright JSON report into the flat ParsedReport the dashboard  *)
(* renders.  The parser is a pure function; the state machine draws a      *)
(* report from bounded families of inputs and applies the parser to it.    *)
(*                                                                         *)
(* Representation of JavaScript values:                                    *)
(*   - an optional field is a sequence of length at most one:              *)
(*     None (undefined) or Some(v);                                        *)
(*   - an array is a sequence;                                             *)
(*   - a string the parser looks into (title, file, id, endpoint) is a     *)
(*     sequence of one-character strings; other strings are atoms;         *)
(*   - a timestamp is [sec, ms]; Date.getTime() is its millisecond value;  *)
(*   - a thrown TypeError is the value Threw.                              *)
(*                                                                         *)
(* Next to the parser the module models the polling loop of                *)
(* web-dashboard/src/utils/api.ts (waitForTestCompletion): the variable    *)
(* waiter holds one call of it, with the log of what it has done; and the  *)
(* Dashboard page (pages/Dashboard.tsx): the variable dash holds its React *)
(* state, its fetchData calls in flight and the position of its two        *)
(* handlers; and the page header (components/Header.tsx): the variable     *)
(* header holds its React state and the URLs submitted so far.             *)
(***************************************************************************)
EXTENDS Integers, Sequences, FiniteSets

VARIABLES report, out, pc, waiter, dash, header

vars == <<report, out, pc, waiter, dash, header>>

----------------------------------------------------------------------------
(* Optional values *)

None == <<>>

Some(v) == <<v>>

IsSome(o) == Len(o) = 1

Get(o) == o[1]

\* JavaScript's  a ?? d
Nullish(o, d) == IF IsSome(o) THEN Get(o) ELSE d

\* JavaScript's  n || d  on numbers: 0 is falsy
OrElse(n, d) == IF n # 0 THEN n ELSE d

Max(a, b) == IF a >= b THEN a ELSE b

Min(a, b) == IF a <= b THEN a ELSE b

Range(s) == {s[i] : i \in 1..Len(s)}

SeqsUpTo(S, n) == UNION {[1..k -> S] : k \in 0..n}

----------------------------------------------------------------------------
(* Characters *)

LowerAlpha == <<"a","b","c","d","e","f","g","h","i","j","k","l","m","n","o","p","q","r","s","t","u","v","w","x","y","z">>

UpperAlpha == <<"A","B","C","D","E","F","G","H","I","J","K","L","M","N","O","P","Q","R","S","T","U","V","W","X","Y","Z">>

DigitChars == <<"0","1","2","3","4","5","6","7","8","9">>

LowerSet == Range(LowerAlpha)

Letters == LowerSet \cup Range(UpperAlpha)

UpperOf == [c \in LowerSet |-> UpperAlpha[CHOOSE i \in 1..Len(LowerAlpha) : LowerAlpha[i] = c]]

\* String.prototype.toUpperCase, on ASCII
UpperChar(c) == IF c \in LowerSet THEN UpperOf[c] ELSE c

toUpperCase(s) == [i \in 1..Len(s) |-> UpperChar(s[i])]

\* String.prototype.includes
includes(s, sub) ==
    \E i \in 0..(Len(s) - Len(sub)) :
        \A j \in 1..Len(sub) : s[i + j] = sub[j]

\* Number -> decimal string, as a template literal renders a non-negative integer
RECURSIVE numberToString(_)
numberToString(n) ==
    IF n < 10 THEN <<DigitChars[n + 1]>>
    ELSE numberToString(n \div 10) \o <<DigitChars[(n % 10) + 1]>>

----------------------------------------------------------------------------
(* extractMethod, parser.ts 6-14 *)

methods == << <<"G","E","T">>, <<"P","O","S","T">>, <<"P","U","T">>, <<"P","A","T","C","H">>, <<"D","E","L","E","T","E">>, <<"H","E","A","D">>, <<"O","P","T","I","O","N","S">> >>

\* variant: the verb that occurs first in the title wins
extractMethod_textualOrder(title) ==
    LET upper == toUpperCase(title)
        hits == {k \in 1..Len(methods) : includes(upper, methods[k])}
        at(sub) == {i \in 1..(Len(upper) - Len(sub) + 1) :
                       \A j \in 1..Len(sub) : upper[i + j - 1] = sub[j]}
        indexOf(sub) == CHOOSE i \in at(sub) : \A k \in at(sub) : i <= k
    IN  IF hits = {} THEN <<"G","E","T">>
        ELSE methods[CHOOSE k \in hits :
                        \A m \in hits : indexOf(methods[k]) <= indexOf(methods[m])]

extractMethod(title) ==
    LET upper == toUpperCase(title)
        hits == {k \in 1..Len(methods) : includes(upper, methods[k])}
    IN  IF hits = {} THEN <<"G","E","T">>
        ELSE methods[CHOOSE k \in hits : \A m \in hits : k <= m]

----------------------------------------------------------------------------
(* extractEndpoint, parser.ts 19-26: the regex /\/[\w\-\/:{}]+\/?/ *)

\* the character class [\w\-\/:{}]
PathChars == Letters \cup Range(DigitChars) \cup {"_", "-", "/", ":", "{", "}"}

PathChar(c) == c \in PathChars

\* a match can start at i: a slash followed by at least one class character
MatchStart(title, i) ==
    /\ title[i] = "/"
    /\ i + 1 <= Len(title)
    /\ PathChar(title[i + 1])

\* the greedy [..]+ starting at i+1 ends at the last index of the run of class
\* characters; the trailing \/? then finds no slash to take (a slash is in the
\* class and was consumed by the run)
RunEnd(title, i) ==
    CHOOSE e \in (i + 1)..Len(title) :
        /\ \A k \in (i + 1)..e : PathChar(title[k])
        /\ (e = Len(title) \/ ~PathChar(title[e + 1]))

\* variant: the class may be empty after the slash (a * for the +)
extractEndpoint_firstSlash(title) ==
    LET starts == {i \in 1..Len(title) : title[i] = "/"}
    IN  IF starts = {} THEN <<"/">>
        ELSE LET i == CHOOSE s \in starts : \A s2 \in starts : s <= s2
                 e == CHOOSE k \in i..Len(title) :
                          /\ \A m \in (i + 1)..k : PathChar(title[m])
                          /\ (k = Len(title) \/ ~PathChar(title[k + 1]))
             IN  SubSeq(title, i, e)

extractEndpoint(title) ==
    LET starts == {i \in 1..Len(title) : MatchStart(title, i)}
    IN  IF starts = {} THEN <<"/">>
        ELSE LET i == CHOOSE s \in starts : \A s2 \in starts : s <= s2
             IN  SubSeq(title, i, RunEnd(title, i))

----------------------------------------------------------------------------
(* generateId, parser.ts 31-33 *)

IdTitleLen == 20

\* the class [a-zA-Z0-9-] that .replace keeps
IdChars == Letters \cup Range(DigitChars) \cup {"-"}

IdChar(c) == c \in IdChars

\* variant: the whole title goes into the id
generateId_fullTitle(file, line, title) ==
    LET raw == file \o <<"-">> \o numberToString(line) \o <<"-">> \o title
    IN  [i \in 1..Len(raw) |-> IF IdChar(raw[i]) THEN raw[i] ELSE "_"]

generateId(file, line, title) ==
    LET raw == file \o <<"-">> \o numberToString(line) \o <<"-">>
               \o SubSeq(title, 1, Min(IdTitleLen, Len(title)))
    IN  [i \in 1..Len(raw) |-> IF IdChar(raw[i]) THEN raw[i] ELSE "_"]

----------------------------------------------------------------------------
(* extractTestsFromSuites, parser.ts 38-70 *)

\* a walk either returns the results array or throws a TypeError
Threw == [threw |-> TRUE]

Returned(results) == [threw |-> FALSE, results |-> results]

\* variant: the first attempt instead of the last
lastResultOf_first(results) ==
    IF Len(results) = 0 THEN None ELSE Some(results[1])

\* line 47: test.results[test.results.length - 1], undefined on an empty array
lastResultOf(results) ==
    IF Len(results) = 0 THEN None ELSE Some(results[Len(results)])

\* variant: a missing status defaults to 'failed'
rawStatusOf_defaultFailed(lastResult) ==
    IF IsSome(lastResult) THEN Nullish(Get(lastResult).status, "failed") ELSE "skipped"

\* line 48: lastResult?.status ?? 'skipped'
rawStatusOf(lastResult) ==
    IF IsSome(lastResult) THEN Nullish(Get(lastResult).status, "skipped") ELSE "skipped"

\* variant: only 'passed' and 'failed' are recognised, the rest is skipped
mapStatus_otherSkipped(status) ==
    IF status = "passed" THEN "passed"
    ELSE IF status = "failed" THEN "failed"
    ELSE "skipped"

\* line 55: passed and skipped are kept, any other value is failed
mapStatus(status) ==
    IF status = "passed" THEN "passed"
    ELSE IF status = "skipped" THEN "skipped"
    ELSE "failed"

\* lines 50-60: the object pushed for one test of one spec
\* variant: the name is the title cut as it is cut for the id
endpointResult_shortName(spec, lastResult) ==
    [ id       |-> generateId(spec.file, spec.line, spec.title),
      name     |-> SubSeq(spec.title, 1, Min(IdTitleLen, Len(spec.title))),
      endpoint |-> extractEndpoint(spec.title),
      method   |-> extractMethod(spec.title),
      status   |-> mapStatus(rawStatusOf(lastResult)),
      duration |-> IF IsSome(lastResult) THEN Nullish(Get(lastResult).duration, 0) ELSE 0,
      error    |-> IF IsSome(lastResult) THEN Get(lastResult).error ELSE None,
      file     |-> spec.file,
      line     |-> spec.line ]

endpointResult(spec, lastResult) ==
    [ id       |-> generateId(spec.file, spec.line, spec.title),
      name     |-> spec.title,
      endpoint |-> extractEndpoint(spec.title),
      method   |-> extractMethod(spec.title),
      status   |-> mapStatus(rawStatusOf(lastResult)),
      duration |-> IF IsSome(lastResult) THEN Nullish(Get(lastResult).duration, 0) ELSE 0,
      error    |-> IF IsSome(lastResult) THEN Get(lastResult).error ELSE None,
      file     |-> spec.file,
      line     |-> spec.line ]

\* variant: a test with no attempt is left out
RECURSIVE pushTests_skipEmpty(_, _, _)
pushTests_skipEmpty(spec, tests, results) ==
    IF tests = <<>> THEN Returned(results)
    ELSE LET test == Head(tests)
         IN  IF ~IsSome(test.results) THEN Threw
             ELSE IF Get(test.results) = <<>> THEN pushTests_skipEmpty(spec, Tail(tests), results)
             ELSE pushTests_skipEmpty(spec, Tail(tests),
                      Append(results, endpointResult(spec, lastResultOf(Get(test.results)))))

\* lines 46-61: for (const test of spec.tests); test.results.length throws a
\* TypeError when the test has no results field
RECURSIVE pushTests(_, _, _)
pushTests(spec, tests, results) ==
    IF tests = <<>> THEN Returned(results)
    ELSE LET test == Head(tests)
         IN  IF ~IsSome(test.results) THEN Threw
             ELSE pushTests(spec, Tail(tests),
                      Append(results, endpointResult(spec, lastResultOf(Get(test.results)))))

\* lines 45-62: for (const spec of suite.specs)
RECURSIVE pushSpecs(_, _)
pushSpecs(specs, results) ==
    IF specs = <<>> THEN Returned(results)
    ELSE LET r == pushTests(Head(specs), Head(specs).tests, results)
         IN  IF r.threw THEN Threw ELSE pushSpecs(Tail(specs), r.results)

\* variant: the nested suites are walked before the suite's own specs
RECURSIVE extractTestsFromSuites_nestedFirst(_, _)
extractTestsFromSuites_nestedFirst(suites, results) ==
    IF suites = <<>> THEN Returned(results)
    ELSE LET suite == Head(suites)
             below == IF IsSome(suite.suites) /\ Len(Get(suite.suites)) > 0
                      THEN extractTestsFromSuites_nestedFirst(Get(suite.suites), results)
                      ELSE Returned(results)
             r == IF below.threw THEN Threw
                  ELSE IF IsSome(suite.specs)
                       THEN pushSpecs(Get(suite.specs), below.results)
                       ELSE below
         IN  IF r.threw THEN Threw
             ELSE extractTestsFromSuites_nestedFirst(Tail(suites), r.results)

\* lines 42-69: for (const suite of suites): the suite's own specs first
\* (44-63), then the recursive call on its nested suites (66-68)
RECURSIVE extractTestsFromSuites(_, _)
extractTestsFromSuites(suites, results) ==
    IF suites = <<>> THEN Returned(results)
    ELSE LET suite == Head(suites)
             own == IF IsSome(suite.specs)
                    THEN pushSpecs(Get(suite.specs), results)
                    ELSE Returned(results)
             r == IF own.threw THEN Threw
                  ELSE IF IsSome(suite.suites) /\ Len(Get(suite.suites)) > 0
                       THEN extractTestsFromSuites(Get(suite.suites), own.results)
                       ELSE own
         IN  IF r.threw THEN Threw
             ELSE extractTestsFromSuites(Tail(suites), r.results)

----------------------------------------------------------------------------
(* parsePlaywrightReport, parser.ts 75-131 *)

\* Date.getTime() of the date a timestamp string parses to
getTime(ts) == ts.sec * 1000 + ts.ms

countStatus(endpoints, s) == Cardinality({i \in 1..Len(endpoints) : endpoints[i].status = s})

\* line 77: report?.errors?.length || 0
errorCountOf(rep) == IF IsSome(rep.errors) THEN Len(Get(rep.errors)) ELSE 0

\* lines 85-87
runStartTimeOf(rep) ==
    IF IsSome(rep.runStartTime) THEN getTime(Get(rep.runStartTime))
    ELSE getTime(rep.stats.startTime)

\* variant: the difference of the pair is not floored at 0
durationFromRunOf_noFloor(rep) ==
    IF IsSome(rep.runDurationMs) THEN rep.runDurationMs
    ELSE IF IsSome(rep.runEndTime)
         THEN Some(getTime(Get(rep.runEndTime)) - runStartTimeOf(rep))
         ELSE None

\* variant: the difference is taken only when both ends of the pair are given
durationFromRunOf_needsBoth(rep) ==
    IF IsSome(rep.runDurationMs) THEN rep.runDurationMs
    ELSE IF IsSome(rep.runEndTime) /\ IsSome(rep.runStartTime)
         THEN Some(Max(0, getTime(Get(rep.runEndTime)) - runStartTimeOf(rep)))
         ELSE None

\* lines 88-93
durationFromRunOf(rep) ==
    IF IsSome(rep.runDurationMs) THEN rep.runDurationMs
    ELSE IF IsSome(rep.runEndTime)
         THEN Some(Max(0, getTime(Get(rep.runEndTime)) - runStartTimeOf(rep)))
         ELSE None

\* line 108, kept exact as the fraction num/den
passRateOf(passed, totalTests) ==
    IF totalTests > 0 THEN [num |-> passed * 100, den |-> totalTests]
    ELSE [num |-> 0, den |-> 1]

\* variant: the runner's counters are preferred for the total
statsOf_runnerTotal(rep, passed, failed, skipped, totalTests) ==
    [ totalTests |-> OrElse(rep.stats.expected + rep.stats.unexpected + rep.stats.skipped, totalTests),
      passed     |-> OrElse(passed, rep.stats.expected),
      failed     |-> OrElse(failed, rep.stats.unexpected),
      skipped    |-> OrElse(skipped, rep.stats.skipped),
      flaky      |-> rep.stats.flaky,
      duration   |-> Nullish(durationFromRunOf(rep), rep.stats.duration),
      passRate   |-> passRateOf(passed, totalTests),
      startTime  |-> runStartTimeOf(rep) ]

\* variant: the pass rate is taken from the stats fields, fallbacks included
statsOf_rateFromStats(rep, passed, failed, skipped, totalTests) ==
    [ totalTests |-> OrElse(totalTests, rep.stats.expected + rep.stats.unexpected + rep.stats.skipped),
      passed     |-> OrElse(passed, rep.stats.expected),
      failed     |-> OrElse(failed, rep.stats.unexpected),
      skipped    |-> OrElse(skipped, rep.stats.skipped),
      flaky      |-> rep.stats.flaky,
      duration   |-> Nullish(durationFromRunOf(rep), rep.stats.duration),
      passRate   |-> passRateOf(OrElse(passed, rep.stats.expected),
                                OrElse(totalTests, rep.stats.expected + rep.stats.unexpected + rep.stats.skipped)),
      startTime  |-> runStartTimeOf(rep) ]

\* lines 101-110
statsOf(rep, passed, failed, skipped, totalTests) ==
    [ totalTests |-> OrElse(totalTests, rep.stats.expected + rep.stats.unexpected + rep.stats.skipped),
      passed     |-> OrElse(passed, rep.stats.expected),
      failed     |-> OrElse(failed, rep.stats.unexpected),
      skipped    |-> OrElse(skipped, rep.stats.skipped),
      flaky      |-> rep.stats.flaky,
      duration   |-> Nullish(durationFromRunOf(rep), rep.stats.duration),
      passRate   |-> passRateOf(passed, totalTests),
      startTime  |-> runStartTimeOf(rep) ]

\* variant: a pass is looked for before a failure
deriveStatus_passedFirst(errorCount, totalTests, passed, failed) ==
    IF errorCount > 0 /\ totalTests = 0 THEN "compilation_error"
    ELSE IF passed > 0 THEN "passed"
    ELSE IF failed > 0 \/ errorCount > 0 THEN "failed"
    ELSE IF totalTests = 0 THEN "no_tests"
    ELSE "unknown"

\* variant: top-level errors do not fail a run that has endpoints
deriveStatus_ignoresErrors(errorCount, totalTests, passed, failed) ==
    IF errorCount > 0 /\ totalTests = 0 THEN "compilation_error"
    ELSE IF failed > 0 THEN "failed"
    ELSE IF passed > 0 THEN "passed"
    ELSE IF totalTests = 0 THEN "no_tests"
    ELSE "unknown"

\* lines 115-121
deriveStatus(errorCount, totalTests, passed, failed) ==
    IF errorCount > 0 /\ totalTests = 0 THEN "compilation_error"
    ELSE IF failed > 0 \/ errorCount > 0 THEN "failed"
    ELSE IF passed > 0 THEN "passed"
    ELSE IF totalTests = 0 THEN "no_tests"
    ELSE "unknown"

\* lines 80-82
walkOf(rep) ==
    IF IsSome(rep.suites) /\ Len(Get(rep.suites)) > 0
    THEN extractTestsFromSuites(Get(rep.suites), <<>>)
    ELSE Returned(<<>>)

\* variant: the error list is handed on in reverse order
errorsOf_reversed(rep) ==
    LET es == Get(rep.errors)
    IN  [i \in 1..Len(es) |-> es[Len(es) + 1 - i]]

\* line 126: errors: report.errors
errorsOf(rep) == Get(rep.errors)

parsePlaywrightReport(rep) ==
    LET walk == walkOf(rep)
    IN  IF walk.threw THEN Threw
        ELSE LET endpoints  == walk.results
                 errorCount == errorCountOf(rep)
                 passed     == countStatus(endpoints, "passed")
                 failed     == countStatus(endpoints, "failed")
                 skipped    == countStatus(endpoints, "skipped")
                 totalTests == Len(endpoints)
                 stats      == statsOf(rep, passed, failed, skipped, totalTests)
             IN  \* line 113: report.errors.length throws when errors is undefined
                 IF ~IsSome(rep.errors) THEN Threw
                 ELSE [ threw      |-> FALSE,
                        stats      |-> stats,
                        endpoints  |-> endpoints,
                        errors     |-> errorsOf(rep),
                        hasData    |-> (Len(endpoints) > 0 \/ Len(Get(rep.errors)) > 0
                                         \/ stats.totalTests > 0),
                        status     |-> deriveStatus(errorCount, totalTests, passed, failed),
                        errorCount |-> errorCount ]

----------------------------------------------------------------------------
(* Input documents: the report shapes of types.ts, drawn from bounded      *)
(* families.  Each family varies some fields over every combination and    *)
(* holds the others at a default.                                          *)

MaxTests == 3

MaxResults == 2

MaxSuites == 4

MaxErrors == 2

TitleGetPokemon == <<"G","E","T"," ","/","p","o","k","e","m","o","n","/","{","i","d","}","/"," ","-"," ","s","h","o","u","l","d"," ","r","e","t","u","r","n"," ","4","0","4">>

TitleNoVerb == <<"s","h","o","u","l","d"," ","c","r","e","a","t","e"," ","a"," ","p","o","k","e","m","o","n">>

TitlePostPokemon == <<"P","O","S","T"," ","/","p","o","k","e","m","o","n","/"," ","s","h","o","u","l","d"," ","c","r","e","a","t","e">>

TitlePostBeforeGet == <<"s","h","o","u","l","d"," ","r","e","t","u","r","n"," ","4","0","4"," ","i","f"," ","P","O","S","T"," ","b","e","f","o","r","e"," ","G","E","T">>

TitleLowerDelete == <<"d","e","l","e","t","e"," ","/","t","e","a","m","s","/",":","i","d"," ","x">>

TitleGetPokemonOk == <<"G","E","T"," ","/","p","o","k","e","m","o","n","/","{","i","d","}","/"," ","-"," ","s","h","o","u","l","d"," ","r","e","t","u","r","n"," ","2","0","0">>

TitleSlashes == <<"5","0","%"," ","/"," ","d","o","n","e",":"," ","p","u","t"," ","/","a","p","i","/","v","1","_","x","-","y","?","q","=","/","z">>

TitleEmpty == <<>>

TitleTarget == <<"u","p","d","a","t","e"," ","t","a","r","g","e","t"," ","/","x">>

TitleDispatch == <<"d","i","s","p","a","t","c","h"," ","/","H","E","A","D">>

TitleOptions == <<"O","p","t","i","o","n","s"," ","a","n","d"," ","i","n","p","u","t">>

Titles == {TitleGetPokemon, TitleGetPokemonOk, TitleNoVerb, TitlePostPokemon, TitlePostBeforeGet, TitleLowerDelete, TitleSlashes, TitleEmpty,
           TitleTarget, TitleDispatch, TitleOptions}

TitleSuite == <<"t","e","a","m","-","s","e","r","v","i","c","e">>

FileA == <<"a",".","s","p","e","c",".","t","s">>

FileB == <<"t","e","s","t","s","/","b","_","v","2",".","s","p","e","c",".","t","s">>

Stamp(sec, ms) == [sec |-> sec, ms |-> ms]

TestResult(status, duration, error) ==
    [status |-> status, duration |-> duration, error |-> error]

ResPassed == TestResult(Some("passed"), Some(120), None)

ResPassedFast == TestResult(Some("passed"), Some(80), None)

ResFailed == TestResult(Some("failed"), Some(30), Some("AssertionError"))

ResTimedOut == TestResult(Some("timedOut"), Some(60000), Some("TimeoutError"))

ResSkipped == TestResult(Some("skipped"), Some(0), None)

ResInterrupted == TestResult(Some("interrupted"), Some(5), None)

\* a result object with no status, duration or error field
ResBare == TestResult(None, None, None)

\* a result with an error and a duration but no status field
ResNoStatus == TestResult(None, Some(45), Some("AssertionError"))

ResultSet == {ResPassed, ResFailed, ResTimedOut, ResSkipped, ResInterrupted, ResBare, ResNoStatus}

RetryResultSet == {ResPassed, ResPassedFast, ResFailed, ResNoStatus}

Test(results) == [results |-> results]

TestSpec(title, file, line, tests) ==
    [title |-> title, file |-> file, line |-> line, tests |-> tests]

TestSuite(specs, suites) ==
    [title |-> TitleSuite, file |-> FileB, line |-> 3, specs |-> specs, suites |-> suites]

ZeroStats ==
    [startTime |-> Stamp(100, 0), duration |-> 0, expected |-> 0, unexpected |-> 0,
     skipped |-> 0, flaky |-> 0]

MixedStats ==
    [startTime |-> Stamp(100, 0), duration |-> 777, expected |-> 2, unexpected |-> 1,
     skipped |-> 1, flaky |-> 1]

RunnerStats == {ZeroStats, MixedStats}

PlaywrightReport(suites, errors, stats) ==
    [suites |-> suites, errors |-> errors, stats |-> stats,
     runStartTime |-> None, runEndTime |-> None, runDurationMs |-> None]

\* one suite holding one spec with the given tests
OneSpec(title, line, tests) ==
    Some(<<TestSuite(Some(<<TestSpec(title, FileA, line, tests)>>), None)>>)

\* Outcomes: up to MaxTests tests of one spec, each run once or not at all,
\* against 0, 1 or 2 top-level errors and the runner's own counters
OutcomeResultSet == {ResPassed, ResFailed, ResTimedOut, ResSkipped, ResNoStatus}

OutcomeTests == {Test(Some(<<r>>)) : r \in OutcomeResultSet} \cup {Test(Some(<<>>))}

OutcomeErrors == {Some(<<>>), Some(<<"SyntaxError">>), Some(<<"SyntaxError", "TypeError">>)}

OutcomeReport ==
    \E n \in 0..MaxTests : \E ts \in [1..n -> OutcomeTests] :
        \E es \in OutcomeErrors, st \in RunnerStats :
            report = PlaywrightReport(OneSpec(TitlePostPokemon, 10, ts), es, st)

\* Retries: two tests of one spec, each with up to MaxResults attempts
RetryTests == {Test(Some(rs)) : rs \in SeqsUpTo(RetryResultSet, MaxResults)}

RetryReport ==
    \E t1 \in RetryTests, t2 \in RetryTests :
        report = PlaywrightReport(OneSpec(TitleGetPokemon, 20, <<t1, t2>>), Some(<<>>), ZeroStats)

\* Single attempts: two tests of one spec, each with one attempt of any kind
SingleReport ==
    \E r1 \in ResultSet, r2 \in ResultSet, st \in RunnerStats :
        report = PlaywrightReport(
            OneSpec(TitleLowerDelete, 42, <<Test(Some(<<r1>>)), Test(Some(<<r2>>))>>), Some(<<>>), st)

\* Shapes: every forest of at most MaxSuites suites, each suite with one of
\* the spec lists below.  A forest of n suites is given by its suites in
\* document order, parent[i] the suite enclosing suite i (0 at the top level).
SpecOne == TestSpec(TitleGetPokemon, FileA, 10, <<Test(Some(<<ResPassed>>))>>)

SpecTwo == TestSpec(TitlePostPokemon, FileA, 20, <<Test(Some(<<ResFailed>>)), Test(Some(<<>>))>>)

ShapeSpecs == {Some(<<>>), Some(<<SpecOne>>), Some(<<SpecTwo, SpecOne>>)}

RECURSIVE Encloses(_, _, _)
Encloses(parent, a, x) ==
    \/ x = a
    \/ x # 0 /\ Encloses(parent, a, parent[x])

\* the parent vectors of forests listed in document order: a suite follows
\* its parent, and opens inside the previous suite or one enclosing it
ParentVectors(n) ==
    {parent \in {p \in [1..n -> 0..(n - 1)] : \A i \in 1..n : p[i] < i} :
        \A i \in 2..n : Encloses(parent, parent[i], i - 1)}

ChildrenOf(parent, n, i) == {j \in 1..n : parent[j] = i}

RECURSIVE SortedSeq(_)
SortedSeq(S) ==
    IF S = {} THEN <<>>
    ELSE LET m == CHOOSE x \in S : \A y \in S : x <= y
         IN  <<m>> \o SortedSeq(S \ {m})

RECURSIVE SuiteAt(_, _, _, _)
SuiteAt(parent, specs, n, i) ==
    LET kids == SortedSeq(ChildrenOf(parent, n, i))
    IN  TestSuite(specs[i],
                  IF kids = <<>> THEN None
                  ELSE Some([k \in 1..Len(kids) |-> SuiteAt(parent, specs, n, kids[k])]))

ForestOf(parent, specs, n) ==
    LET tops == SortedSeq(ChildrenOf(parent, n, 0))
    IN  [k \in 1..Len(tops) |-> SuiteAt(parent, specs, n, tops[k])]

ShapeReport ==
    \E n \in 0..MaxSuites : \E parent \in ParentVectors(n) : \E specs \in [1..n -> ShapeSpecs] :
        report = PlaywrightReport(Some(ForestOf(parent, specs, n)), Some(<<>>), ZeroStats)

\* Sparse trees: suites without a specs or a suites field, a test without a
\* results field
SpecSparse == TestSpec(TitleNoVerb, FileB, 30, <<Test(Some(<<ResSkipped>>)), Test(None)>>)

SparseSpecs == {None, Some(<<>>), Some(<<SpecOne>>), Some(<<SpecSparse>>)}

SparseLeaves == {TestSuite(sp, ch) : sp \in SparseSpecs, ch \in {None, Some(<<>>)}}

SparseSuites == SparseLeaves \cup {TestSuite(sp, Some(<<l>>)) : sp \in SparseSpecs, l \in SparseLeaves}

SparseReport ==
    \/ report = PlaywrightReport(None, Some(<<>>), ZeroStats)
    \/ \E a \in SparseSuites, b \in SparseLeaves :
        report = PlaywrightReport(Some(<<a, b>>), Some(<<>>), ZeroStats)

\* Errors: the top-level error list, absent or of up to MaxErrors errors
ErrorSet == {"SyntaxError", "TypeError"}

ErrorFields == {None} \cup {Some(es) : es \in SeqsUpTo(ErrorSet, MaxErrors)}

ErrorReport ==
    \E su \in {None, Some(<<>>), OneSpec(TitleNoVerb, 5, <<Test(Some(<<ResPassed>>))>>)} :
        \E es \in ErrorFields, st \in RunnerStats :
            report = PlaywrightReport(su, es, st)

\* Timing: the optional run-level timing fields
RunStarts == {None, Some(Stamp(101, 500)), Some(Stamp(103, 0))}

RunEnds == {None, Some(Stamp(102, 250)), Some(Stamp(99, 0))}

RunDurations == {None, Some(0), Some(55)}

TimingReport ==
    \E su \in {None, OneSpec(TitleNoVerb, 5, <<Test(Some(<<ResPassed>>))>>)} :
        \E st \in RunnerStats, a \in RunStarts, b \in RunEnds, d \in RunDurations :
            report = [PlaywrightReport(su, Some(<<>>), st) EXCEPT
                         !.runStartTime = a, !.runEndTime = b, !.runDurationMs = d]

\* Titles: two specs of one suite, over the titles, files and lines
TitleReport ==
    \E t1 \in Titles, t2 \in Titles, f \in {FileA, FileB}, l1 \in {7, 120}, l2 \in {7, 1005} :
        report = PlaywrightReport(
            Some(<<TestSuite(Some(<<TestSpec(t1, f, l1, <<Test(Some(<<ResPassed>>))>>),
                                    TestSpec(t2, FileA, l2, <<Test(Some(<<ResFailed>>))>>)>>), None)>>),
            Some(<<>>), ZeroStats)

----------------------------------------------------------------------------
(* waitForTestCompletion, api.ts (TestList.tsx 296-331 in this source      *)
(* tree): one call of it.  waiter.pc is where the call stands: "off" not   *)
(* yet called, "awaiting" a getRunStatus request is in flight, "sleeping"  *)
(* a setTimeout(poll) is pending, "returned" nothing is scheduled.         *)
(* waiter.log lists what the call has done, in order.                      *)

MaxAttempts == 3

\* RunStatusResponse.status
RunStatuses == {"idle", "running", "completed", "failed", "no_test_run"}

\* what a failed getRunStatus throws (line 277, or fetch itself)
RunErrors == {"Failed to get status: Bad Gateway", "Failed to fetch"}

Event(e, v) == [e |-> e, v |-> v]

Pending == [state |-> "pending", value |-> ""]

\* resolve(status): a settled promise ignores it
resolve(promise, status) ==
    IF promise.state = "pending" THEN [state |-> "resolved", value |-> status] ELSE promise

\* reject(error)
reject(promise, error) ==
    IF promise.state = "pending" THEN [state |-> "rejected", value |-> error] ELSE promise

WaiterOff(maxAttempts) ==
    [pc |-> "off", attempts |-> 0, maxAttempts |-> maxAttempts, log |-> <<>>, promise |-> Pending]

\* poll(): line 309 issues the request
poll(w) == [w EXCEPT !.pc = "awaiting", !.log = Append(@, Event("call", ""))]

\* variant: idle ends the wait like completed and failed
afterStatus_idleEnds(w, status) ==
    LET told == [w EXCEPT !.log = @ \o <<Event("status", status), Event("update", status)>>]
    IN  IF status \in {"completed", "failed", "idle"}
        THEN [told EXCEPT !.promise = resolve(@, status), !.pc = "returned",
                          !.log = Append(@, Event("resolve", status))]
        ELSE LET counted == [told EXCEPT !.attempts = @ + 1]
             IN  IF counted.attempts >= counted.maxAttempts
                 THEN [counted EXCEPT !.promise = reject(@, "Test run timed out"), !.pc = "returned",
                                      !.log = Append(@, Event("reject", "Test run timed out"))]
                 ELSE [counted EXCEPT !.pc = "sleeping", !.log = Append(@, Event("timer", ""))]

\* variant: the limit is tested with > for >=
afterStatus_oneMore(w, status) ==
    LET told == [w EXCEPT !.log = @ \o <<Event("status", status), Event("update", status)>>]
    IN  IF status \in {"completed", "failed"}
        THEN [told EXCEPT !.promise = resolve(@, status), !.pc = "returned",
                          !.log = Append(@, Event("resolve", status))]
        ELSE LET counted == [told EXCEPT !.attempts = @ + 1]
             IN  IF counted.attempts > counted.maxAttempts
                 THEN [counted EXCEPT !.promise = reject(@, "Test run timed out"), !.pc = "returned",
                                      !.log = Append(@, Event("reject", "Test run timed out"))]
                 ELSE [counted EXCEPT !.pc = "sleeping", !.log = Append(@, Event("timer", ""))]

\* lines 309-323, the request returned status: onStatusUpdate, then resolve,
\* or count the attempt and reject or schedule the next poll
afterStatus(w, status) ==
    LET told == [w EXCEPT !.log = @ \o <<Event("status", status), Event("update", status)>>]
    IN  IF status \in {"completed", "failed"}
        THEN [told EXCEPT !.promise = resolve(@, status), !.pc = "returned",
                          !.log = Append(@, Event("resolve", status))]
        ELSE LET counted == [told EXCEPT !.attempts = @ + 1]
             IN  IF counted.attempts >= counted.maxAttempts
                 THEN [counted EXCEPT !.promise = reject(@, "Test run timed out"), !.pc = "returned",
                                      !.log = Append(@, Event("reject", "Test run timed out"))]
                 ELSE [counted EXCEPT !.pc = "sleeping", !.log = Append(@, Event("timer", ""))]

\* variant: a failed poll is reported and polling goes on
afterError_retry(w, error) ==
    [w EXCEPT !.promise = reject(@, error), !.pc = "sleeping",
              !.log = @ \o <<Event("error", error), Event("reject", error), Event("timer", "")>>]

\* lines 324-326, the request threw: catch, reject
afterError(w, error) ==
    [w EXCEPT !.promise = reject(@, error), !.pc = "returned",
              !.log = @ \o <<Event("error", error), Event("reject", error)>>]

----------------------------------------------------------------------------
(* Dashboard, pages/Dashboard.tsx 13-86.  dash.calls lists the fetchData   *)
(* calls in the order they were started; dash.run and dash.fix are where   *)
(* the running handleRunTests and handleFixAndRetry stand: "idle",         *)
(* "trigger" awaiting triggerTestRun / fixAndRetryTests, "wait" awaiting   *)
(* waitForTestCompletion, "fetch" awaiting fetchData.  dash.last records   *)
(* the latest handler invocation.                                          *)

MaxFetches == 3

NoReport == PlaywrightReport(None, Some(<<>>), ZeroStats)

PassReport ==
    PlaywrightReport(OneSpec(TitlePostPokemon, 10, <<Test(Some(<<ResPassed>>))>>), Some(<<>>), ZeroStats)

\* what fetchLatestResults can return
FetchReports == {NoReport, PassReport}

NoInvocation == [handler |-> "none", busy |-> FALSE, called |-> FALSE]

\* lines 29-30 and the request of lines 34-37
startFetch(d) ==
    [d EXCEPT !.loading = TRUE, !.error = None,
              !.calls = Append(@, [state |-> "sent", rep |-> None])]

\* lines 14-21, then the mount effect of lines 80-82
DashMounted ==
    startFetch([data |-> None, loading |-> TRUE, error |-> None,
                isRunningTests |-> FALSE, isFixing |-> FALSE,
                run |-> "idle", fix |-> "idle", runFetch |-> 0, fixFetch |-> 0,
                calls |-> <<>>, last |-> NoInvocation])

\* lines 59-61 and 74-76: the finally of the handler whose await ended
finishRun(d) == [d EXCEPT !.isRunningTests = FALSE, !.run = "idle", !.runFetch = 0]

finishFix(d) == [d EXCEPT !.isFixing = FALSE, !.fix = "idle", !.fixFetch = 0]

\* lines 39-46 for call i, whose answer was outcome (Some(report), or None
\* when the request failed) and parsed the value of line 38; then the
\* handlers awaiting this call go on
showFetched(d, i, outcome, parsed) ==
    LET shown  == IF parsed.threw
                  THEN [d EXCEPT !.error = Some("Failed to load test data")]
                  ELSE [d EXCEPT !.data = Some(parsed)]
        done   == [shown EXCEPT !.loading = FALSE,
                                !.calls[i] = [state |-> IF IsSome(outcome) THEN "ok" ELSE "failed",
                                              rep |-> outcome]]
        ran    == IF done.run = "fetch" /\ done.runFetch = i THEN finishRun(done) ELSE done
    IN  IF ran.fix = "fetch" /\ ran.fixFetch = i THEN finishFix(ran) ELSE ran

\* lines 34-46: the awaited request of call i ends
settleFetch(d, i, outcome) ==
    showFetched(d, i, outcome,
                IF IsSome(outcome) THEN parsePlaywrightReport(Get(outcome)) ELSE Threw)

Busy(d) == d.run # "idle" \/ d.fix # "idle"

\* lines 49-54: the guard, the flag, the call of triggerTestRun
handleRunTests(d) ==
    IF d.isRunningTests
    THEN [d EXCEPT !.last = [handler |-> "run", busy |-> Busy(d), called |-> FALSE]]
    ELSE [d EXCEPT !.isRunningTests = TRUE, !.run = "trigger",
                   !.last = [handler |-> "run", busy |-> Busy(d), called |-> TRUE]]

\* lines 64-69: the guard, the flag, the call of fixAndRetryTests
handleFixAndRetry(d) ==
    IF d.isFixing \/ d.isRunningTests
    THEN [d EXCEPT !.last = [handler |-> "fix", busy |-> Busy(d), called |-> FALSE]]
    ELSE [d EXCEPT !.isFixing = TRUE, !.fix = "trigger",
                   !.last = [handler |-> "fix", busy |-> Busy(d), called |-> TRUE]]

----------------------------------------------------------------------------
(* Header, components/Header.tsx 11-77.  header.entered lists the values   *)
(* of repoUrl with which handleRunTests was invoked, header.started the    *)
(* URLs passed to triggerTestRun; header.inFlight counts the invocations   *)
(* awaiting triggerTestRun or waitForTestCompletion, header.timers the     *)
(* pending 3 s timers of line 59.                                          *)

HistoryLimit == 10

MaxSubmits == 2

\* a URL is a string: a sequence of one-character strings
Url(k) == <<LowerAlpha[k]>>

\* the URLs of earlier submissions, in the order they were submitted
KnownUrls == [k \in 1..(HistoryLimit + 2) |-> Url(k)]

WhiteSpace == {" ", "\t"}

RECURSIVE trimStart(_)
trimStart(str) ==
    IF str # <<>> /\ Head(str) \in WhiteSpace THEN trimStart(Tail(str)) ELSE str

RECURSIVE trimEnd(_)
trimEnd(str) ==
    IF str # <<>> /\ str[Len(str)] \in WhiteSpace
    THEN trimEnd(SubSeq(str, 1, Len(str) - 1)) ELSE str

\* String.prototype.trim
trim(str) == trimEnd(trimStart(str))

\* variant: the URL is put in front without being taken out of the old list
saveToHistory_noFilter(history, url) ==
    IF url = <<>> THEN history
    ELSE LET newHistory == <<url>> \o history
         IN  SubSeq(newHistory, 1, Min(HistoryLimit, Len(newHistory)))

\* lines 30-35: the new value of history (and of localStorage)
saveToHistory(history, url) ==
    IF url = <<>> THEN history
    ELSE LET Other(h) == h # url
             newHistory == <<url>> \o SelectSeq(history, Other)
         IN  SubSeq(newHistory, 1, Min(HistoryLimit, Len(newHistory)))

\* lines 37-50, up to the first await
submit(h) ==
    LET url == trim(h.repoUrl)
    IN  IF url = <<>> THEN [h EXCEPT !.entered = Append(@, h.repoUrl), !.presses = @ + 1]
        ELSE [h EXCEPT !.history = saveToHistory(@, url),
                       !.presses = @ + 1,
                       !.stored = saveToHistory(h.history, url),
                       !.isRunning = TRUE,
                       !.status = "running",
                       !.inFlight = @ + 1,
                       !.entered = Append(@, h.repoUrl),
                       !.started = Append(@, url)]

\* lines 12-16: the state of a newly mounted header
HeaderMounted ==
    [history |-> <<>>, stored |-> <<>>, repoUrl |-> <<>>, isRunning |-> FALSE, status |-> "none",
     inFlight |-> 0, timers |-> 0, presses |-> 0, entered |-> <<>>, started |-> <<>>]

\* the header mounted anew (lines 18-28 load the stored history) after the
\* first n known URLs were submitted one after the other
RECURSIVE HeaderAfter(_)
HeaderAfter(n) ==
    IF n = 0 THEN HeaderMounted
    ELSE [submit([HeaderAfter(n - 1) EXCEPT !.repoUrl = KnownUrls[n]])
             EXCEPT !.isRunning = FALSE, !.status = "none", !.inFlight = 0, !.repoUrl = <<>>,
                    !.presses = 0]

----------------------------------------------------------------------------
(* The state machine: a report arrives, the dashboard parses it once *)

Init ==
    /\ \/ OutcomeReport
       \/ RetryReport
       \/ SingleReport
       \/ ShapeReport
       \/ SparseReport
       \/ ErrorReport
       \/ TimingReport
       \/ TitleReport
    /\ out = None
    /\ pc = "ready"
    /\ waiter = WaiterOff(MaxAttempts)
    /\ dash = DashMounted
    /\ header = HeaderMounted

Parse ==
    /\ pc = "ready"
    /\ out' = Some(parsePlaywrightReport(report))
    /\ pc' = "done"
    /\ UNCHANGED <<report, waiter, dash, header>>

Next == Parse

Spec == Init /\ [][Next]_vars

\* the same machine on the reports that vary the spec titles, files and lines
InitTitles ==
    /\ TitleReport
    /\ out = None
    /\ pc = "ready"
    /\ waiter = WaiterOff(MaxAttempts)
    /\ dash = DashMounted
    /\ header = HeaderMounted

SpecTitles == InitTitles /\ [][Next]_vars

\* the polling loop: one call of waitForTestCompletion with the callers'
\* non-throwing onStatusUpdate; the parser stands still
InitWait ==
    /\ report = NoReport
    /\ out = None
    /\ pc = "ready"
    /\ \E m \in 1..MaxAttempts : waiter = WaiterOff(m)
    /\ dash = DashMounted
    /\ header = HeaderMounted

\* waitForTestCompletion is called: line 329 runs the first poll
WaitStart ==
    /\ waiter.pc = "off"
    /\ waiter' = poll(waiter)
    /\ UNCHANGED <<report, out, pc, dash, header>>

\* the request in flight returns a status
StatusReturns ==
    /\ waiter.pc = "awaiting"
    /\ \E status \in RunStatuses : waiter' = afterStatus(waiter, status)
    /\ UNCHANGED <<report, out, pc, dash, header>>

\* the request in flight fails
StatusThrows ==
    /\ waiter.pc = "awaiting"
    /\ \E error \in RunErrors : waiter' = afterError(waiter, error)
    /\ UNCHANGED <<report, out, pc, dash, header>>

\* the timer of line 323 fires: the next poll
TimerFires ==
    /\ waiter.pc = "sleeping"
    /\ waiter' = poll(waiter)
    /\ UNCHANGED <<report, out, pc, dash, header>>

NextWait == WaitStart \/ StatusReturns \/ StatusThrows \/ TimerFires

SpecWait == InitWait /\ [][NextWait]_vars

\* every getRunStatus call returns or fails, and every timer fires
SpecWaitFair == SpecWait /\ WF_vars(NextWait)

\* the Dashboard page after mount; the parser is applied inside fetchData
InitDash ==
    /\ report = NoReport
    /\ out = None
    /\ pc = "ready"
    /\ waiter = WaiterOff(MaxAttempts)
    /\ dash = DashMounted
    /\ header = HeaderMounted

\* fetchData is called from outside the handlers: Retry and Refresh (lines
\* 138, 252), a deleted file (TestFileList 45), a finished Header run (85)
Refresh ==
    /\ Len(dash.calls) < MaxFetches
    /\ dash' = startFetch(dash)
    /\ UNCHANGED <<report, out, pc, waiter, header>>

\* the answer to one of the calls in flight arrives, or the request fails
FetchSettles ==
    /\ \E i \in 1..Len(dash.calls) :
           /\ dash.calls[i].state = "sent"
           /\ \E outcome \in {None} \cup {Some(r) : r \in FetchReports} :
                  dash' = settleFetch(dash, i, outcome)
    /\ UNCHANGED <<report, out, pc, waiter, header>>

\* the Retry Tests button of the test list (line 242)
RunTestsInvoked ==
    /\ dash' = handleRunTests(dash)
    /\ UNCHANGED <<report, out, pc, waiter, header>>

\* the Fix button of the error log (line 222)
FixAndRetryInvoked ==
    /\ dash' = handleFixAndRetry(dash)
    /\ UNCHANGED <<report, out, pc, waiter, header>>

\* triggerTestRun returns (line 54): waitForTestCompletion is called; or it
\* throws
TriggerReturns ==
    /\ dash.run = "trigger"
    /\ \E ok \in BOOLEAN : dash' = IF ok THEN [dash EXCEPT !.run = "wait"] ELSE finishRun(dash)
    /\ UNCHANGED <<report, out, pc, waiter, header>>

\* fixAndRetryTests returns (line 69), or throws
FixReturns ==
    /\ dash.fix = "trigger"
    /\ \E ok \in BOOLEAN : dash' = IF ok THEN [dash EXCEPT !.fix = "wait"] ELSE finishFix(dash)
    /\ UNCHANGED <<report, out, pc, waiter, header>>

\* waitForTestCompletion resolves (lines 55-56): fetchData is called; or it
\* rejects
RunWaitReturns ==
    /\ dash.run = "wait"
    /\ \/ /\ Len(dash.calls) < MaxFetches
          /\ dash' = [startFetch(dash) EXCEPT !.run = "fetch", !.runFetch = Len(dash.calls) + 1]
       \/ dash' = finishRun(dash)
    /\ UNCHANGED <<report, out, pc, waiter, header>>

\* lines 70-71
FixWaitReturns ==
    /\ dash.fix = "wait"
    /\ \/ /\ Len(dash.calls) < MaxFetches
          /\ dash' = [startFetch(dash) EXCEPT !.fix = "fetch", !.fixFetch = Len(dash.calls) + 1]
       \/ dash' = finishFix(dash)
    /\ UNCHANGED <<report, out, pc, waiter, header>>

NextDash ==
    \/ Refresh
    \/ FetchSettles
    \/ RunTestsInvoked
    \/ FixAndRetryInvoked
    \/ TriggerReturns
    \/ FixReturns
    \/ RunWaitReturns
    \/ FixWaitReturns

SpecDash == InitDash /\ [][NextDash]_vars

\* how many URLs were submitted before the mount: none, one, and enough to
\* fill the list or to overflow it
SavedCounts == {0, 1} \cup (HistoryLimit - 1)..Len(KnownUrls)

\* the header: the history is the one left by the earlier submissions
InitHeader ==
    /\ report = NoReport
    /\ out = None
    /\ pc = "ready"
    /\ waiter = WaiterOff(MaxAttempts)
    /\ dash = DashMounted
    /\ \E n \in SavedCounts : header = HeaderAfter(n)

\* what is typed into the URL field
TypedUrls ==
    {<<>>, <<"\t", " ">>, <<" ">> \o Url(1) \o <<" ">>, Url(HistoryLimit),
     Url(HistoryLimit + 1) \o <<"\t">>, <<"z">>}

\* line 143: the URL field changes
EnterUrl ==
    /\ \E typed \in TypedUrls : header' = [header EXCEPT !.repoUrl = typed]
    /\ header'.repoUrl # header.repoUrl
    /\ UNCHANGED <<report, out, pc, waiter, dash>>

\* handleRunTests is invoked (line 226)
StartAgent ==
    /\ header.presses < MaxSubmits
    /\ header' = submit(header)
    /\ UNCHANGED <<report, out, pc, waiter, dash>>

\* lines 50-64: triggerTestRun and waitForTestCompletion returned;
\* onTestComplete is called and the 3 s timer set
AgentCompletes ==
    /\ header.inFlight > 0
    /\ header' = [header EXCEPT !.inFlight = @ - 1, !.timers = @ + 1]
    /\ UNCHANGED <<report, out, pc, waiter, dash>>

\* lines 65-69: one of the two awaits threw
AgentFails ==
    /\ header.inFlight > 0
    /\ header' = [header EXCEPT !.inFlight = @ - 1, !.status = "failed", !.isRunning = FALSE]
    /\ UNCHANGED <<report, out, pc, waiter, dash>>

\* lines 59-64: the timer fires
ModalCloses ==
    /\ header.timers > 0
    /\ header' = [header EXCEPT !.timers = @ - 1, !.isRunning = FALSE, !.status = "none",
                                !.repoUrl = <<>>]
    /\ UNCHANGED <<report, out, pc, waiter, dash>>

NextHeader == EnterUrl \/ StartAgent \/ AgentCompletes \/ AgentFails \/ ModalCloses

SpecHeader == InitHeader /\ [][NextHeader]_vars

----------------------------------------------------------------------------
(* The input document read independently of the parser: the tests of the   *)
(* suite tree by their paths, and document order on paths                  *)

\* a test's path: the indices of the suites leading to its spec, the spec's
\* index in that suite and the test's index in the spec
RECURSIVE TestPaths(_, _)
TestPaths(suites, prefix) ==
    UNION { LET suite == suites[i]
                here  == prefix \o <<i>>
                own   == IF IsSome(suite.specs)
                         THEN UNION { {[suite |-> here, spec |-> s, test |-> t] :
                                          t \in 1..Len(Get(suite.specs)[s].tests)} :
                                      s \in 1..Len(Get(suite.specs)) }
                         ELSE {}
                below == IF IsSome(suite.suites) THEN TestPaths(Get(suite.suites), here) ELSE {}
            IN  own \cup below :
            i \in 1..Len(suites) }

Paths == IF IsSome(report.suites) THEN TestPaths(Get(report.suites), <<>>) ELSE {}

RECURSIVE SuiteAtPath(_, _)
SuiteAtPath(suites, path) ==
    IF Len(path) = 1 THEN suites[path[1]]
    ELSE SuiteAtPath(Get(suites[path[1]].suites), Tail(path))

SpecAt(p) == Get(SuiteAtPath(Get(report.suites), p.suite).specs)[p.spec]

TestAt(p) == SpecAt(p).tests[p.test]

IsPrefix(a, b) == Len(a) <= Len(b) /\ SubSeq(b, 1, Len(a)) = a

\* depth-first pre-order: within one suite by (spec, test); a suite's own
\* tests before those of the suites nested in it; otherwise by the first
\* suite index where the two paths part
Before(p, q) ==
    LET a == p.suite
        b == q.suite
    IN  IF a = b THEN p.spec < q.spec \/ (p.spec = q.spec /\ p.test < q.test)
        ELSE IF IsPrefix(a, b) THEN TRUE
        ELSE IF IsPrefix(b, a) THEN FALSE
        ELSE LET j == CHOOSE k \in 1..Min(Len(a), Len(b)) :
                          a[k] # b[k] /\ \A m \in 1..(k - 1) : a[m] = b[m]
             IN  a[j] < b[j]

\* the place in document order of the test at p, counted from 1
Rank(p) == 1 + Cardinality({q \in Paths : Before(q, p)})

Done == pc = "done"

\* the parser returned a ParsedReport
Parsed == Done /\ ~Get(out).threw

Result == Get(out)

Endpoints == Result.endpoints

\* the endpoint of the test at p, once the endpoints are known to be one per test
EndpointAt(p) == Endpoints[Rank(p)]

OnePerTest == Len(Endpoints) = Cardinality(Paths)

HasStatus(s) == \E i \in 1..Len(Endpoints) : Endpoints[i].status = s

NumStatus(s) == Cardinality({i \in 1..Len(Endpoints) : Endpoints[i].status = s})

TopErrors == IF IsSome(report.errors) THEN Len(Get(report.errors)) ELSE 0

\* the last attempt of the test at p, when it has one
HasLast(p) == IsSome(TestAt(p).results) /\ Len(Get(TestAt(p).results)) > 0

LastOf(p) == Get(TestAt(p).results)[Len(Get(TestAt(p).results))]

----------------------------------------------------------------------------
(* Claims *)

\* C1: the status is the first matching rule of: errors and no endpoints ->
\* compilation_error; a failed endpoint or an error -> failed; a passed
\* endpoint -> passed; no endpoints -> no_tests; otherwise unknown.  unknown
\* is returned exactly for a non-empty, error-free, all-skipped report, which
\* is never classified passed.
C1_StatusFirstRule ==
    Parsed =>
        /\ Result.status =
              IF TopErrors > 0 /\ Len(Endpoints) = 0 THEN "compilation_error"
              ELSE IF HasStatus("failed") \/ TopErrors > 0 THEN "failed"
              ELSE IF HasStatus("passed") THEN "passed"
              ELSE IF Len(Endpoints) = 0 THEN "no_tests"
              ELSE "unknown"
        /\ Result.status = "unknown" <=>
              /\ Len(Endpoints) > 0
              /\ TopErrors = 0
              /\ \A i \in 1..Len(Endpoints) : Endpoints[i].status = "skipped"

C1_Witness ==
    /\ Parsed
    /\ Result.status = "unknown"
    /\ Len(Endpoints) >= 2

\* C2: with at least one top-level error the status is compilation_error
\* when no endpoint was extracted and failed when one was, even if every
\* endpoint passed.
C2_ErrorsDecideStatus ==
    (Parsed /\ TopErrors > 0) =>
        Result.status = IF Len(Endpoints) = 0 THEN "compilation_error" ELSE "failed"

C2_Witness ==
    /\ Parsed
    /\ TopErrors = 2
    /\ Len(Endpoints) = 3
    /\ \A i \in 1..3 : Endpoints[i].status = "passed"
    /\ Result.status = "failed"

\* C3: stats.totalTests is endpoints.length when an endpoint was extracted,
\* and the runner's expected + unexpected + skipped when none was.
C3_TotalTests ==
    Parsed =>
        Result.stats.totalTests =
            IF Len(Endpoints) > 0 THEN Len(Endpoints)
            ELSE report.stats.expected + report.stats.unexpected + report.stats.skipped

C3_Witness ==
    /\ Parsed
    /\ Len(Endpoints) = 0
    /\ Result.stats.totalTests = 4

\* C4: with at least one endpoint, stats.passed, stats.failed and
\* stats.skipped are the numbers of passed, failed and skipped endpoints,
\* whatever the runner's own counters say.
C4_CountsFromEndpoints ==
    (Parsed /\ Len(Endpoints) > 0) =>
        /\ Result.stats.passed = NumStatus("passed")
        /\ Result.stats.failed = NumStatus("failed")
        /\ Result.stats.skipped = NumStatus("skipped")
        /\ Result.stats.passed + Result.stats.failed + Result.stats.skipped = Len(Endpoints)

\* C5: stats.passRate (the exact fraction num/den) is within [0, 100], is
\* passed endpoints / endpoints.length * 100 when there are endpoints, and 0
\* when there are none.
C5_PassRate ==
    Parsed =>
        LET rate == Result.stats.passRate
        IN  /\ rate.den > 0
            /\ 0 <= rate.num
            /\ rate.num <= 100 * rate.den
            /\ Len(Endpoints) > 0 =>
                   rate.num * Len(Endpoints) = NumStatus("passed") * 100 * rate.den
            /\ Len(Endpoints) = 0 => rate.num = 0

C5_Witness ==
    /\ Parsed
    /\ Len(Endpoints) = 3
    /\ NumStatus("passed") = 1
    /\ report.stats.expected = 2

C5_WitnessEmpty ==
    /\ Parsed
    /\ Len(Endpoints) = 0
    /\ report.stats.expected = 2
    /\ Result.stats.passRate.num = 0

\* C6: endpoints holds exactly one EndpointResult per test of every spec of
\* the suite tree, in depth-first pre-order: a suite's own specs (each spec's
\* tests in order) first, then its nested suites, an earlier sibling before a
\* later one, at any depth.
C6_DocumentOrder ==
    Parsed =>
        /\ OnePerTest
        /\ \A p \in Paths :
               EndpointAt(p) = endpointResult(SpecAt(p), lastResultOf(Get(TestAt(p).results)))

\* a suite with tests of its own, tests two levels below it, and a later
\* sibling with tests
C6_Witness ==
    /\ Parsed
    /\ \E p, q, r \in Paths :
           /\ Len(p.suite) = 1
           /\ Len(q.suite) >= 3
           /\ IsPrefix(p.suite, q.suite)
           /\ Len(r.suite) = 1
           /\ r.suite[1] > p.suite[1]
           /\ EndpointAt(p) # EndpointAt(q)
           /\ EndpointAt(q) # EndpointAt(r)

\* C7: status, duration and error come from the last element of the test's
\* results only: two tests whose results end with the same attempt get the
\* same status, duration and error, and results [failed, passed] give passed.
C7_LastAttemptOnly ==
    Parsed =>
        /\ OnePerTest
        /\ \A p, q \in Paths :
               (HasLast(p) /\ HasLast(q) /\ LastOf(p) = LastOf(q)) =>
                   /\ EndpointAt(p).status = EndpointAt(q).status
                   /\ EndpointAt(p).duration = EndpointAt(q).duration
                   /\ EndpointAt(p).error = EndpointAt(q).error
        /\ \A p \in Paths :
               (HasLast(p) /\ Get(TestAt(p).results) = <<ResFailed, ResPassed>>) =>
                   /\ EndpointAt(p).status = "passed"
                   /\ EndpointAt(p).duration = Get(ResPassed.duration)
                   /\ EndpointAt(p).error = None

C7_Witness ==
    /\ Parsed
    /\ \E p, q \in Paths :
           /\ Get(TestAt(p).results) = <<ResFailed, ResPassed>>
           /\ Get(TestAt(q).results) = <<ResPassed>>
           /\ EndpointAt(p).status = "passed"
           /\ EndpointAt(q).status = "passed"

\* C8: every EndpointResult.status is passed, failed or skipped: a last
\* attempt's status passed gives passed, skipped gives skipped, and every
\* other present status gives failed.
C8_ThreeStatuses ==
    Parsed =>
        /\ OnePerTest
        /\ \A i \in 1..Len(Endpoints) : Endpoints[i].status \in {"passed", "failed", "skipped"}
        /\ \A p \in Paths :
               (HasLast(p) /\ IsSome(LastOf(p).status)) =>
                   EndpointAt(p).status =
                       IF Get(LastOf(p).status) = "passed" THEN "passed"
                       ELSE IF Get(LastOf(p).status) = "skipped" THEN "skipped"
                       ELSE "failed"

C8_Witness ==
    /\ Parsed
    /\ \E p, q \in Paths :
           /\ HasLast(p) /\ LastOf(p).status = Some("timedOut")
           /\ HasLast(q) /\ LastOf(q).status = Some("interrupted")
           /\ EndpointAt(p).status = "failed"
           /\ EndpointAt(q).status = "failed"

\* C9 as stated: a last result with no status field gives status failed.
C9_AbsentStatusFailed ==
    Parsed =>
        /\ OnePerTest
        /\ \A p \in Paths :
               (HasLast(p) /\ ~IsSome(LastOf(p).status)) => EndpointAt(p).status = "failed"

\* C9 as amended: a last result with no status field gives status skipped,
\* the default that line 48 also gives a test with no result.
C9_AbsentStatusSkipped ==
    Parsed =>
        /\ OnePerTest
        /\ \A p \in Paths :
               (HasLast(p) /\ ~IsSome(LastOf(p).status)) => EndpointAt(p).status = "skipped"

C9_Witness ==
    /\ Parsed
    /\ \E p \in Paths :
           /\ HasLast(p)
           /\ LastOf(p) = ResNoStatus
           /\ EndpointAt(p).status = "skipped"
           /\ EndpointAt(p).error = Some("AssertionError")

\* C10: a test with an empty results array still gives one EndpointResult,
\* with status skipped, duration 0 and no error, counted in stats.skipped
\* and stats.totalTests.
C10_EmptyResultsSkipped ==
    (Parsed /\ \E p \in Paths : Get(TestAt(p).results) = <<>>) =>
        /\ OnePerTest
        /\ \A p \in Paths :
               Get(TestAt(p).results) = <<>> =>
                   /\ EndpointAt(p).status = "skipped"
                   /\ EndpointAt(p).duration = 0
                   /\ EndpointAt(p).error = None
        /\ Result.stats.skipped = NumStatus("skipped")
        /\ Result.stats.skipped >= Cardinality({p \in Paths : Get(TestAt(p).results) = <<>>})
        /\ Result.stats.totalTests = Cardinality(Paths)

C10_Witness ==
    /\ Parsed
    /\ report.stats.skipped = 1
    /\ Cardinality(Paths) = 3
    /\ Cardinality({p \in Paths : Get(TestAt(p).results) = <<>>}) = 2
    /\ Result.stats.skipped = 2

\* C11: the walk never raises on a sparse tree: a suite with no specs field
\* or no (or an empty) suites field contributes no endpoints, and a test with
\* no results field is treated like a test with an empty results array.
C11_WalkTotal ==
    (Done /\ IsSome(report.errors)) =>
        /\ ~Get(out).threw
        /\ OnePerTest
        /\ \A p \in Paths :
               ~IsSome(TestAt(p).results) =>
                   /\ EndpointAt(p).status = "skipped"
                   /\ EndpointAt(p).duration = 0
                   /\ EndpointAt(p).error = None

\* C12: parsePlaywrightReport never throws, and a report with no suites and
\* no top-level errors (its errors list missing or empty, its runner counters
\* zero or not) gives status no_tests with totalTests, passed, failed and
\* skipped all 0.
C12_NeverThrowsNoTests ==
    Done =>
        /\ ~Get(out).threw
        /\ ((~IsSome(report.suites) \/ report.suites = Some(<<>>)) /\ TopErrors = 0) =>
               /\ Result.status = "no_tests"
               /\ Result.stats.totalTests = 0
               /\ Result.stats.passed = 0
               /\ Result.stats.failed = 0
               /\ Result.stats.skipped = 0

\* C13: the method is the first verb, in the order GET, POST, PUT, PATCH,
\* DELETE, HEAD, OPTIONS, that occurs in the spec title as a substring
\* whatever the case of its letters and wherever it stands, and GET when none
\* occurs; it is always one of the seven.
VerbOrder == << <<"G","E","T">>, <<"P","O","S","T">>, <<"P","U","T">>, <<"P","A","T","C","H">>, <<"D","E","L","E","T","E">>, <<"H","E","A","D">>, <<"O","P","T","I","O","N","S">> >>

SameLetter(a, b) ==
    \/ a = b
    \/ \E i \in 1..Len(LowerAlpha) : {a, b} = {LowerAlpha[i], UpperAlpha[i]}

OccursIn(verb, title) ==
    \E off \in 0..(Len(title) - Len(verb)) :
        \A j \in 1..Len(verb) : SameLetter(title[off + j], verb[j])

C13_MethodByVerbOrder ==
    Parsed =>
        /\ OnePerTest
        /\ \A p \in Paths :
               LET title  == SpecAt(p).title
                   method == EndpointAt(p).method
               IN  /\ \E k \in 1..Len(VerbOrder) : method = VerbOrder[k]
                   /\ \A k \in 1..Len(VerbOrder) :
                          (OccursIn(VerbOrder[k], title)
                             /\ \A m \in 1..(k - 1) : ~OccursIn(VerbOrder[m], title))
                          => method = VerbOrder[k]
                   /\ (\A k \in 1..Len(VerbOrder) : ~OccursIn(VerbOrder[k], title))
                          => method = VerbOrder[1]

\* POST stands before GET in the title and GET is returned; a lower-case
\* delete is found
C13_Witness ==
    /\ Parsed
    /\ \E p, q \in Paths :
           /\ SpecAt(p).title = TitlePostBeforeGet
           /\ EndpointAt(p).method = <<"G","E","T">>
           /\ SpecAt(q).title = TitleLowerDelete
           /\ EndpointAt(q).method = <<"D","E","L","E","T","E">>

\* C14: the endpoint is the leftmost substring of the spec title that starts
\* with a slash and goes on with one or more of letters, digits, - _ / : { },
\* taken greedily, and "/" when the title has none; it always starts with a
\* slash; "GET /pokemon/{id}/ - should return 404" gives "/pokemon/{id}/" and
\* "should create a pokemon" gives "/".
IsLetterOrDigit(c) ==
    \/ \E i \in 1..Len(LowerAlpha) : c \in {LowerAlpha[i], UpperAlpha[i]}
    \/ \E i \in 1..Len(DigitChars) : c = DigitChars[i]

InPathClass(c) == IsLetterOrDigit(c) \/ c \in {"-", "_", "/", ":", "{", "}"}

\* e is the candidate of the title that starts at index i
CandidateAt(title, i, e) ==
    /\ Len(e) >= 2
    /\ i + Len(e) - 1 <= Len(title)
    /\ e = SubSeq(title, i, i + Len(e) - 1)
    /\ e[1] = "/"
    /\ \A k \in 2..Len(e) : InPathClass(e[k])
    /\ (i + Len(e) > Len(title) \/ ~InPathClass(title[i + Len(e)]))

HasCandidate(title, i) ==
    i < Len(title) /\ title[i] = "/" /\ InPathClass(title[i + 1])

C14_EndpointLeftmostPath ==
    Parsed =>
        /\ OnePerTest
        /\ \A p \in Paths :
               LET title == SpecAt(p).title
                   e     == EndpointAt(p).endpoint
                   none  == \A i \in 1..Len(title) : ~HasCandidate(title, i)
               IN  /\ Len(e) >= 1 /\ e[1] = "/"
                   /\ none => e = <<"/">>
                   /\ ~none => \E i \in 1..Len(title) :
                                   /\ CandidateAt(title, i, e)
                                   /\ \A k \in 1..(i - 1) : ~HasCandidate(title, k)
                   /\ title = TitleGetPokemon => e = <<"/","p","o","k","e","m","o","n","/","{","i","d","}","/">>
                   /\ title = TitleNoVerb => e = <<"/">>

\* a report with both example titles; and one whose title has a lone slash
\* before the path and a character outside the class after it
C14_Witness ==
    /\ Parsed
    /\ \E p, q \in Paths :
           /\ SpecAt(p).title = TitleGetPokemon
           /\ EndpointAt(p).endpoint = <<"/","p","o","k","e","m","o","n","/","{","i","d","}","/">>
           /\ SpecAt(q).title = TitleNoVerb
           /\ EndpointAt(q).endpoint = <<"/">>

C14_WitnessLoneSlash ==
    /\ Parsed
    /\ \E p \in Paths :
           /\ SpecAt(p).title = TitleSlashes
           /\ EndpointAt(p).endpoint = <<"/","a","p","i","/","v","1","_","x","-","y">>

\* C15: the id is file-line-title[0..20) with every character that is not a
\* letter, a digit or a hyphen replaced by "_": it holds only [A-Za-z0-9_-],
\* and two specs that agree on file, line and the first 20 characters of the
\* title get the same id.
First20(title) == SubSeq(title, 1, IF Len(title) < 20 THEN Len(title) ELSE 20)

IdSource(file, line, title) ==
    file \o <<"-">> \o numberToString(line) \o <<"-">> \o First20(title)

Millis(ts) == 1000 * ts.sec + ts.ms

Elapsed(from, to) == IF Millis(to) < Millis(from) THEN 0 ELSE Millis(to) - Millis(from)

HasPair == IsSome(report.runStartTime) /\ IsSome(report.runEndTime)

\* C17 as stated: with both runStartTime and runEndTime, stats.duration is
\* max(0, runEndTime - runStartTime) in milliseconds.
C17_PairDuration ==
    (Parsed /\ HasPair) =>
        Result.stats.duration = Elapsed(Get(report.runStartTime), Get(report.runEndTime))

\* C17: with both runStartTime and runEndTime and no runDurationMs,
\* stats.duration is max(0, runEndTime - runStartTime) in milliseconds, 0 when
\* the end precedes the start; with runDurationMs given, stats.duration is
\* runDurationMs whatever the pair says.
C17_PairDurationUnlessGiven ==
    (Parsed /\ HasPair) =>
        Result.stats.duration =
            IF IsSome(report.runDurationMs) THEN Get(report.runDurationMs)
            ELSE Elapsed(Get(report.runStartTime), Get(report.runEndTime))

\* the end precedes the start and the duration is 0, not the runner's
C17_Witness ==
    /\ Parsed /\ HasPair
    /\ ~IsSome(report.runDurationMs)
    /\ Millis(Get(report.runEndTime)) < Millis(Get(report.runStartTime))
    /\ Result.stats.duration = 0
    /\ report.stats.duration # 0

\* a positive difference of the pair, and a given runDurationMs that wins
C17_WitnessPositive ==
    /\ Parsed /\ HasPair
    /\ ~IsSome(report.runDurationMs)
    /\ Result.stats.duration = 750

C17_WitnessGiven ==
    /\ Parsed /\ HasPair
    /\ report.runDurationMs = Some(55)
    /\ Result.stats.duration = 55
    /\ Elapsed(Get(report.runStartTime), Get(report.runEndTime)) = 750

\* C18 as stated: when runStartTime or runEndTime is missing, stats.duration is
\* the runner's own stats.duration.
C18_RunnerDuration ==
    (Parsed /\ ~HasPair) => Result.stats.duration = report.stats.duration

\* C18: when the report has neither runDurationMs nor runEndTime,
\* stats.duration is the runner's own stats.duration; with runEndTime but
\* neither runStartTime nor runDurationMs it is max(0, runEndTime -
\* stats.startTime); with runDurationMs and an incomplete pair it is
\* runDurationMs.
C18_RunnerDurationWithoutEnd ==
    (Parsed /\ ~HasPair) =>
        Result.stats.duration =
            IF IsSome(report.runDurationMs) THEN Get(report.runDurationMs)
            ELSE IF IsSome(report.runEndTime)
                 THEN Elapsed(report.stats.startTime, Get(report.runEndTime))
                 ELSE report.stats.duration

\* no runEndTime: the runner's duration; runEndTime alone: counted from the
\* runner's startTime
C18_Witness ==
    /\ Parsed
    /\ ~IsSome(report.runDurationMs) /\ ~IsSome(report.runEndTime)
    /\ IsSome(report.runStartTime)
    /\ report.stats.duration = 777
    /\ Result.stats.duration = 777

C18_WitnessEndOnly ==
    /\ Parsed
    /\ ~IsSome(report.runDurationMs) /\ ~IsSome(report.runStartTime)
    /\ report.runEndTime = Some(Stamp(102, 250))
    /\ report.stats.startTime = Stamp(100, 0)
    /\ report.stats.duration = 777
    /\ Result.stats.duration = 2250

C20_SpecFieldsVerbatim ==
    Parsed =>
        /\ OnePerTest
        /\ \A p \in Paths :
               /\ EndpointAt(p).name = SpecAt(p).title
               /\ EndpointAt(p).file = SpecAt(p).file
               /\ EndpointAt(p).line = SpecAt(p).line
        /\ \A p, q \in Paths :
               (p.suite = q.suite /\ p.spec = q.spec) =>
                   /\ EndpointAt(p).name = EndpointAt(q).name
                   /\ EndpointAt(p).file = EndpointAt(q).file
                   /\ EndpointAt(p).line = EndpointAt(q).line
                   /\ EndpointAt(p).method = EndpointAt(q).method
                   /\ EndpointAt(p).endpoint = EndpointAt(q).endpoint

\* two tests of one spec in a suite whose own title, file and line differ from
\* the spec's: both endpoints carry the spec's
C20_Witness ==
    /\ Parsed
    /\ \E p, q \in Paths :
           /\ p.suite = q.suite /\ p.spec = q.spec /\ p.test # q.test
           /\ SuiteAtPath(Get(report.suites), p.suite).file # SpecAt(p).file
           /\ SuiteAtPath(Get(report.suites), p.suite).line # SpecAt(p).line
           /\ Len(SpecAt(p).title) > 20
           /\ EndpointAt(p).name = SpecAt(p).title
           /\ EndpointAt(q).name = SpecAt(p).title
           /\ EndpointAt(q).file = SpecAt(p).file
           /\ EndpointAt(q).line = SpecAt(p).line

\* TestList.tsx 150 and 172: the rows drawn expanded while expandedId holds id
expandedRows(endpoints, id) ==
    {i \in 1..Len(endpoints) : endpoints[i].id = id /\ IsSome(endpoints[i].error)}

\* C21: within one ParsedReport no two endpoints have the same id, so that in
\* the test list, where the id is the row key and the expansion key, at most
\* one row is expanded at a time.
C21_UniqueIds ==
    Parsed =>
        /\ \A i, j \in 1..Len(Endpoints) : i # j => Endpoints[i].id # Endpoints[j].id
        /\ \A i \in 1..Len(Endpoints) :
               Cardinality(expandedRows(Endpoints, Endpoints[i].id)) <= 1

\* C25: whenever the status is no_tests, stats.totalTests is 0: the dashboard
\* never shows 'No Tests' next to a non-zero Total Tests.
C25_NoTestsMeansZeroTotal ==
    Parsed => (Result.status = "no_tests" => Result.stats.totalTests = 0)

\* C26: whenever the status is passed, stats.failed is 0 and stats.passed is
\* at least 1: a run shown as Passed never displays a non-zero Failed count.
C26_PassedMeansNoneFailed ==
    Parsed => (Result.status = "passed" =>
                  Result.stats.failed = 0 /\ Result.stats.passed >= 1)

\* C27: at most one backend operation started by handleRunTests or
\* handleFixAndRetry is in flight at any time: a handler invoked while a test
\* run or a fix-and-retry is in progress returns without calling
\* triggerTestRun or fixAndRetryTests; and the flag of an operation is false
\* again once it has ended.
C27_OneOperationInFlight ==
    /\ ~(dash.run # "idle" /\ dash.fix # "idle")
    /\ dash.last.busy => ~dash.last.called
    /\ dash.run = "idle" => ~dash.isRunningTests
    /\ dash.fix = "idle" => ~dash.isFixing

\* C28: once all overlapping fetchData calls have finished, the displayed data
\* is the parse of the report returned to the most recently started call.
AllFetched == \A i \in 1..Len(dash.calls) : dash.calls[i].state # "sent"

C28_LatestFetchWins ==
    (AllFetched /\ dash.calls[Len(dash.calls)].state = "ok") =>
        dash.data = Some(parsePlaywrightReport(Get(dash.calls[Len(dash.calls)].rep)))

----------------------------------------------------------------------------
(* The polling loop read from its log *)

WLog == waiter.log

At(kind) == {i \in 1..Len(WLog) : WLog[i].e = kind}

Terminal(status) == status = "completed" \/ status = "failed"

Settled == waiter.promise.state # "pending"

\* C22: the promise resolves only with a polled status that is completed or
\* failed, the first such status getRunStatus returned; onStatusUpdate is
\* called exactly once for every polled status, in poll order, the terminal
\* one included, and before the promise resolves; idle, running and
\* no_test_run never resolve it.
C22_ResolvesWithFirstTerminal ==
    /\ waiter.promise.state = "resolved" =>
           /\ Terminal(waiter.promise.value)
           /\ \E i \in At("status") :
                  /\ WLog[i].v = waiter.promise.value
                  /\ \A k \in At("status") : k < i => ~Terminal(WLog[k].v)
                  /\ \E u \in At("update"), r \in At("resolve") :
                         i < u /\ u < r /\ WLog[u].v = WLog[i].v /\ WLog[r].v = WLog[i].v
    /\ \A r \in At("resolve") : Terminal(WLog[r].v) /\ waiter.promise.state = "resolved"
    /\ Cardinality(At("update")) = Cardinality(At("status"))
    /\ \A i \in At("status") :
           /\ i + 1 \in At("update")
           /\ WLog[i + 1].v = WLog[i].v
    /\ (\A i \in At("status") : ~Terminal(WLog[i].v)) => waiter.promise.state # "resolved"

\* idle, running and no_test_run were polled, then failed resolved the promise
C22_Witness ==
    /\ waiter.promise = [state |-> "resolved", value |-> "failed"]
    /\ Cardinality(At("update")) = 3
    /\ \E i, j \in At("status") : i < j /\ WLog[i].v = "idle" /\ WLog[j].v = "no_test_run"

\* C23: when every getRunStatus call returns, waitForTestCompletion settles;
\* it calls getRunStatus at most maxAttempts times, and when none of those
\* polls reports completed or failed it rejects with 'Test run timed out'
\* right after the maxAttempts-th poll, with no further poll scheduled.
TimedOut == waiter.promise = [state |-> "rejected", value |-> "Test run timed out"]

C23_AtMostMaxAttempts ==
    /\ Cardinality(At("call")) <= waiter.maxAttempts
    /\ (/\ Cardinality(At("status")) = waiter.maxAttempts
        /\ \A i \in At("status") : ~Terminal(WLog[i].v))
       => /\ TimedOut
          /\ waiter.pc = "returned"
          /\ WLog[Len(WLog)] = Event("reject", "Test run timed out")
          /\ WLog[Len(WLog) - 1].e = "update"
    /\ TimedOut => Cardinality(At("status")) = waiter.maxAttempts

C23_SettlesWithinMaxAttempts == [] C23_AtMostMaxAttempts /\ <> Settled

\* three polls of a run that never ends, then the rejection
C23_Witness ==
    /\ TimedOut
    /\ waiter.maxAttempts = 3
    /\ Cardinality(At("call")) = 3
    /\ \A i \in At("status") : WLog[i].v = "running"

\* C24: a failed getRunStatus call rejects the promise with that error and
\* stops the polling; once the promise is resolved or rejected no further
\* getRunStatus call and no further onStatusUpdate call is made.
C24_StopsOnceSettled ==
    /\ \A i \in At("error") :
           /\ waiter.promise = [state |-> "rejected", value |-> WLog[i].v]
           /\ i + 1 = Len(WLog)
           /\ WLog[i + 1] = Event("reject", WLog[i].v)
    /\ \A i \in At("resolve") \cup At("reject") :
           \A k \in At("call") \cup At("update") \cup At("timer") : k < i
    /\ Settled => waiter.pc = "returned"

\* the second poll failed after a first one that returned running
C24_Witness ==
    /\ waiter.promise = [state |-> "rejected", value |-> "Failed to fetch"]
    /\ Cardinality(At("call")) = 2
    /\ Cardinality(At("update")) = 1
    /\ waiter.pc = "returned"

----------------------------------------------------------------------------
(* The header's history read against the submissions made *)

Blank(str) == \A i \in 1..Len(str) : str[i] = " " \/ str[i] = "\t"

\* the entries of the submissions that were not blank, in order
Submissions == SelectSeq(header.entered, LAMBDA str : ~Blank(str))

\* url is str without the white space around it
Stripped(str, url) ==
    /\ url # <<>>
    /\ ~Blank(<<url[1]>>) /\ ~Blank(<<url[Len(url)]>>)
    /\ \E lead \in 0..(Len(str) - Len(url)) :
           /\ SubSeq(str, lead + 1, lead + Len(url)) = url
           /\ Blank(SubSeq(str, 1, lead))
           /\ Blank(SubSeq(str, lead + Len(url) + 1, Len(str)))

\* the index of the latest submission of url
LastAt(url) ==
    CHOOSE k \in 1..Len(header.started) :
        /\ header.started[k] = url
        /\ \A m \in (k + 1)..Len(header.started) : header.started[m] # url

HistoryInOrder ==
    LET history == header.history
        urls    == Range(header.started)
    IN  /\ Len(history) <= 10
        /\ \A i, j \in 1..Len(history) : i # j => history[i] # history[j]
        /\ Range(history) \subseteq urls
        /\ Len(history) = IF Cardinality(urls) < 10 THEN Cardinality(urls) ELSE 10
        /\ header.started # <<>> => history[1] = header.started[Len(header.started)]
        /\ \A i, j \in 1..Len(history) : i < j => LastAt(history[i]) > LastAt(history[j])
        /\ \A url \in urls \ Range(history) :
               \A i \in 1..Len(history) : LastAt(url) < LastAt(history[i])
        /\ header.stored = history

RunPerSubmission ==
    /\ Len(header.started) = Len(Submissions)
    /\ \A k \in 1..Len(Submissions) : Stripped(Submissions[k], header.started[k])

BlankSubmission ==
    /\ Len(header'.entered) = Len(header.entered) + 1
    /\ Blank(header'.entered[Len(header'.entered)])

BlankChangesNothing ==
    BlankSubmission =>
        /\ header'.history = header.history
        /\ header'.stored = header.stored
        /\ header'.started = header.started
        /\ header'.inFlight = header.inFlight
        /\ header'.isRunning = header.isRunning
        /\ header'.status = header.status

\* C29: starting from an empty history, after any sequence of submissions the
\* history holds at most 10 URLs, none twice, the most recently submitted
\* first and the others in most-recent-first order; a submission of an empty
\* or white-space-only URL changes nothing and starts no run.
C29_HistoryMostRecentFirst ==
    [](HistoryInOrder /\ RunPerSubmission) /\ [][BlankChangesNothing]_vars

\* more than 10 different URLs were submitted; the latest submission, typed
\* with a trailing tab, was of a URL already in the list and is now first,
\* and a blank submission was made
C29_Witness ==
    /\ Len(header.history) = 10
    /\ Cardinality(Range(header.started)) > 10
    /\ \E k \in 1..(Len(header.started) - 1) :
           header.started[k] = header.started[Len(header.started)]
    /\ header.history[1] = header.started[Len(header.started)]
    /\ Submissions[Len(Submissions)] # header.started[Len(header.started)]
    /\ \E k \in 1..Len(header.entered) : Blank(header.entered[k])

====
